---------------------------- MODULE Spec2Model ----------------------------
(***************************************************************************)
(* Model of stream_server.py: the per-frame loop of generate_frames, the   *)
(* global detection_history, the confidence-weighted smoothing and         *)
(* draw_detections.                                                        *)
(*                                                                         *)
(* Spec and SpecWide run one generator, one action per frame.  SpecConc    *)
(* runs two generators on the shared list, one action per statement that   *)
(* reads or writes it.                                                     *)
(*                                                                         *)
(* Floats are modelled as exact rationals [n, d] in lowest terms with      *)
(* d > 0; [n |-> 0, d |-> 0] is NaN (the result of 0/0).  Rounding of      *)
(* float32 arithmetic is not modelled.                                     *)
(***************************************************************************)
EXTENDS Integers, Sequences, FiniteSets, TLC

\* Largest --smooth-frames value explored (the window size W ranges over 0..MaxW).
MaxW == 2

\* Largest number of frames the source yields to one generate_frames run.
MaxFrames == 3

\* Raw coordinates and confidences are written in tenths: v stands for v/Scale.
Scale == 10

VARIABLES
    smooth_frames,      \* args.smooth_frames
    conf_threshold,     \* args.conf_threshold
    cap_opened,         \* cap is not None and cap.isOpened()
    detection_history,  \* the module-level list
    pc,                 \* state of the generator: "idle", "running", "done", "error"
    frame_count,        \* local frame_count of the running generator
    reads,              \* successful cap.read() calls of this generator
    chunks,             \* chunks yielded by this generator
    source_ended,       \* this generator saw cap closed or a failed read
    enc_fails,          \* frames of this generator whose cv2.imencode failed
    frame_shape,        \* <<frame_w, frame_h>> of the last frame read
    detections,         \* what decode_predictions returned for the last frame
    filtered_dets,      \* filtered_dets of the last frame (<<>> if none)
    has_fire,           \* has_fire of the last frame
    overlay_dets,       \* the rows handed to draw_detections for the last frame
    drawn,              \* rectangles draw_detections put on the last frame
    branch,             \* which branch of lines 134-194 the last frame took
    evicted,            \* the last frame executed detection_history.pop(0)
    encoded,            \* ret of cv2.imencode for the last frame
    miss_run,           \* consecutive frames, up to now, with an empty filtered set
    flicker,            \* the frames so far were hit, miss, hit, miss, ...: which
                        \* kind keeps the pattern ("expect_hit", "expect_miss"),
                        \* or "broken" once it was left
    \* two generate_frames loops run statement by statement (SpecConc)
    loop_pc,            \* per loop: the statement it executes next
    loop_filtered,      \* per loop: its local filtered_dets
    loop_reads,         \* per loop: successful cap.read() calls of its run
    owner,              \* per entry of detection_history: the loop that appended it
    window,             \* per loop: the history its averaging has just read
    interfered,         \* per loop: another loop popped between its length check
                        \* and its pop
    loop_fault          \* per loop: the exception that ended its run, or "none"

vars == <<smooth_frames, conf_threshold, cap_opened, detection_history, pc,
          frame_count, reads, chunks, source_ended, enc_fails, frame_shape,
          detections, filtered_dets, has_fire, overlay_dets, drawn, branch,
          evicted, encoded, miss_run, flicker, loop_pc, loop_filtered,
          loop_reads, owner, window, interfered, loop_fault>>

\* the state of the statement-level loops
conc_vars == <<loop_pc, loop_filtered, loop_reads, owner, window, interfered,
               loop_fault>>

\* the state of the frame-level generator, but for detection_history
single_vars == <<pc, frame_count, reads, chunks, source_ended, enc_fails,
                 frame_shape, detections, filtered_dets, has_fire, overlay_dets,
                 drawn, branch, evicted, encoded, miss_run, flicker>>

----------------------------------------------------------------------------
\* Floats

NaN == [n |-> 0, d |-> 0]

IsNaN(a) == a.d = 0

Abs(x) == IF x < 0 THEN -x ELSE x

Min(a, b) == IF a < b THEN a ELSE b

Max(a, b) == IF a > b THEN a ELSE b

RECURSIVE GCD(_, _)
GCD(a, b) == IF b = 0 THEN a ELSE GCD(b, a % b)

\* The float n/d; 0/0 is NaN.  (x/0 with x # 0 does not arise: confidences are >= 0.)
Norm(n, d) ==
    IF d = 0 THEN NaN
    ELSE LET s == IF d < 0 THEN -1 ELSE 1
             g == GCD(Abs(n), Abs(d))
         IN  [n |-> (s * n) \div g, d |-> (s * d) \div g]

FInt(i) == [n |-> i, d |-> 1]

FAdd(a, b) == IF IsNaN(a) \/ IsNaN(b) THEN NaN ELSE Norm(a.n * b.d + b.n * a.d, a.d * b.d)

FMul(a, b) == IF IsNaN(a) \/ IsNaN(b) THEN NaN ELSE Norm(a.n * b.n, a.d * b.d)

FDiv(a, b) == IF IsNaN(a) \/ IsNaN(b) THEN NaN ELSE Norm(a.n * b.d, a.d * b.n)

\* Comparisons with NaN are False.
FGeq(a, b) == ~IsNaN(a) /\ ~IsNaN(b) /\ a.n * b.d >= b.n * a.d

FLt(a, b) == ~IsNaN(a) /\ ~IsNaN(b) /\ a.n * b.d < b.n * a.d

FIsZero(a) == ~IsNaN(a) /\ a.n = 0

\* int(x): truncation toward zero.
IntOf(a) == IF a.n >= 0 THEN a.n \div a.d ELSE -((-a.n) \div a.d)

RECURSIVE FSum(_)
FSum(s) == IF s = <<>> THEN FInt(0) ELSE FAdd(s[1], FSum(Tail(s)))

----------------------------------------------------------------------------
\* Inputs: what the detector and the camera may hand to one loop iteration.

Detection(x0, y0, x1, y1, c) ==
    [x_min |-> Norm(x0, Scale), y_min |-> Norm(y0, Scale),
     x_max |-> Norm(x1, Scale), y_max |-> Norm(y1, Scale),
     conf |-> Norm(c, Scale), class_id |-> 0]

\* confidence 0.0
DetZero == Detection(2, 2, 6, 6, 0)

\* confidence 0.5, box reaching outside [0,1] on both sides
DetHalf == Detection(-5, 1, 12, 10, 5)

\* confidence 0.9
DetHigh == Detection(3, 0, 8, 5, 9)

Detections == {DetZero, DetHalf, DetHigh}

\* detections[0]: the rows the detector returns for the image, in its order
DetRows == {<<>>, <<DetZero>>, <<DetHalf>>, <<DetHigh>>,
            <<DetHalf, DetHigh>>, <<DetHigh, DetHalf>>, <<DetZero, DetHigh>>}

\* the list model.decode_predictions returns: empty, or one entry for the image
DetectorOutputs == {<<>>} \cup {<<r>> : r \in DetRows}

ConfThresholds == {Norm(0, Scale), Norm(5, Scale)}

WindowSizes == 0..MaxW

FrameShapes == {<<1, 1>>, <<4, 3>>}

----------------------------------------------------------------------------
\* draw_detections

\* no clamping at all
NoClamp(lo, hi, v) == v

Clamp(lo, hi, v) == Max(lo, Min(hi, v))

Skipped(conf, threshold) == FLt(conf, threshold)

Rectangle(shape, det) ==
    LET frame_w == shape[1]
        frame_h == shape[2]
    IN  [x1 |-> Clamp(0, frame_w - 1, IntOf(FMul(det.x_min, FInt(frame_w)))),
         y1 |-> Clamp(0, frame_h - 1, IntOf(FMul(det.y_min, FInt(frame_h)))),
         x2 |-> Clamp(0, frame_w - 1, IntOf(FMul(det.x_max, FInt(frame_w)))),
         y2 |-> Clamp(0, frame_h - 1, IntOf(FMul(det.y_max, FInt(frame_h)))),
         label |-> det.conf]

\* The rectangles (with the confidence of their label) drawn on the frame, in order.
draw_detections(shape, rows, threshold) ==
    LET kept == SelectSeq(rows, LAMBDA det : ~Skipped(det.conf, threshold))
    IN  [i \in 1..Len(kept) |-> Rectangle(shape, kept[i])]

----------------------------------------------------------------------------
\* The smoothing of generate_frames, lines 134-194

\* a strict comparison in place of >=
PassesStrict(conf, threshold) == FGeq(conf, threshold) /\ ~FGeq(threshold, conf)

Passes(conf, threshold) == FGeq(conf, threshold)

\* no second filter: every row the detector returned is kept
KeepAll(rows, threshold) == rows

Filter(rows, threshold) == SelectSeq(rows, LAMBDA det : Passes(det.conf, threshold))

\* smoothing switched on one window size too early
SmoothingFromOne(W) == W >= 1

SmoothingEnabled(W) == W > 1

\* append without the eviction of lines 145-146
PushNoEvict(hist, entry, W) == Append(hist, entry)

\* insert(0, entry) and pop(): the list kept newest-first
PushFront(hist, entry, W) ==
    LET inserted == <<entry>> \o hist
    IN  IF Len(inserted) > W THEN SubSeq(inserted, 1, Len(inserted) - 1)
        ELSE inserted

\* append, then drop the oldest entry if the list got longer than W
PushHistory(hist, entry, W) ==
    LET appended == Append(hist, entry)
    IN  IF Len(appended) > W THEN Tail(appended) ELSE appended

\* pop() instead of pop(0): drops the newest entry
EvictNewest(hist) == IF Len(hist) > 0 THEN SubSeq(hist, 1, Len(hist) - 1) ELSE hist

\* a miss that leaves the history as it is
EvictNothing(hist) == hist

\* pop(0) guarded by len > 0
EvictOldest(hist) == IF Len(hist) > 0 THEN Tail(hist) ELSE hist

\* averaging already over a single entry
HasWindowFromOne(hist) == Len(hist) >= 1

HasWindow(hist) == Len(hist) >= 2

\* np.argmax: the first index holding the maximum
ArgMax(entry) ==
    CHOOSE i \in 1..Len(entry) :
        /\ \A j \in 1..Len(entry) : FGeq(entry[i].conf, entry[j].conf)
        /\ \A j \in 1..(i - 1) : ~FGeq(entry[j].conf, entry[i].conf)

RECURSIVE Representatives(_)
Representatives(hist) ==
    IF hist = <<>> THEN <<>>
    ELSE IF Len(hist[1]) > 0
    THEN <<hist[1][ArgMax(hist[1])]>> \o Representatives(Tail(hist))
    ELSE Representatives(Tail(hist))

\* reps[:, f]
RECURSIVE Column(_, _)
Column(reps, f) ==
    IF reps = <<>> THEN <<>> ELSE <<reps[1][f]>> \o Column(Tail(reps), f)

\* values / total, element-wise
RECURSIVE DivideAll(_, _)
DivideAll(values, total) ==
    IF values = <<>> THEN <<>>
    ELSE <<FDiv(values[1], total)>> \o DivideAll(Tail(values), total)

\* equal weights 1/n instead of confidence weights
UniformWeights(reps) == [i \in 1..Len(reps) |-> Norm(1, Len(reps))]

\* the confidences used as weights without the normalisation of line 158
RawWeights(reps) == Column(reps, "conf")

\* weights = weights / weights.sum()
Weights(reps) ==
    LET c == Column(reps, "conf")
    IN  DivideAll(c, FSum(c))

\* np.average(values, weights=w) raises ZeroDivisionError when w sums to 0.0
AverageRaises(w) == FIsZero(FSum(w))

\* sum(values * w)
RECURSIVE WeightedSum(_, _)
WeightedSum(values, w) ==
    IF values = <<>> THEN FInt(0)
    ELSE FAdd(FMul(values[1], w[1]), WeightedSum(Tail(values), Tail(w)))

\* np.average(values, weights=w) = sum(values * w) / sum(w)
NpAverage(values, w) == FDiv(WeightedSum(values, w), FSum(w))

\* lines 155-161: the row [avg_box..., avg_conf, 0]
SmoothedRow(reps) ==
    LET w == Weights(reps)
    IN  [x_min |-> NpAverage(Column(reps, "x_min"), w),
         y_min |-> NpAverage(Column(reps, "y_min"), w),
         x_max |-> NpAverage(Column(reps, "x_max"), w),
         y_max |-> NpAverage(Column(reps, "y_max"), w),
         conf |-> NpAverage(Column(reps, "conf"), w),
         class_id |-> 0]

Outcome(hist, filtered, fire, rows, br, err) ==
    [history |-> hist, filtered |-> filtered, has_fire |-> fire, overlay |-> rows,
     branch |-> br, raised |-> err]

\* lines 148-181, after the history update
Stabilize(hist, filtered, threshold) ==
    IF HasWindow(hist)
    THEN LET reps == Representatives(hist)
         IN  IF reps = <<>>
             THEN Outcome(hist, filtered, FALSE, <<>>, "average", FALSE)
             ELSE IF AverageRaises(Weights(reps))
             THEN Outcome(hist, filtered, FALSE, <<>>, "average", TRUE)
             ELSE LET row == SmoothedRow(reps)
                  IN  IF Passes(row.conf, threshold)
                      THEN Outcome(hist, filtered, TRUE, <<row>>, "average", FALSE)
                      ELSE Outcome(hist, filtered, FALSE, <<>>, "average", FALSE)
    ELSE Outcome(hist, filtered, TRUE, filtered, "single", FALSE)

\* only the highest-confidence row
BestRowOnly(filtered) == <<filtered[ArgMax(filtered)]>>

\* lines 183-187: with smoothing off draw_detections gets filtered_dets itself
UnsmoothedRows(filtered) == filtered

\* lines 134-194: one frame's detections against the history; overlay is the
\* argument of the draw_detections call the branch makes (<<>> if it makes none)
SmoothingStep(hist, dets, W, threshold) ==
    IF Len(dets) > 0 /\ Len(dets[1]) > 0
    THEN LET filtered == Filter(dets[1], threshold)
         IN  IF Len(filtered) > 0
             THEN IF SmoothingEnabled(W)
                  THEN Stabilize(PushHistory(hist, filtered, W), filtered, threshold)
                  ELSE Outcome(hist, filtered, TRUE, UnsmoothedRows(filtered),
                               "unsmoothed", FALSE)
             ELSE Outcome(EvictOldest(hist), filtered, FALSE, <<>>, "below", FALSE)
    ELSE Outcome(EvictOldest(hist), <<>>, FALSE, <<>>, "empty", FALSE)

----------------------------------------------------------------------------
\* The generator

\* a retry: the loop goes on after the source has failed
RetryAfterSourceEnd == "running"

\* break instead of continue after a failed imencode
BreakAfterEncodeFailure == "done"

\* lines 117 and 121: break
AfterSourceEnd == "done"

\* the counter left as it is
StuckCount(count) == count

\* line 209: frame_count += 1
NextCount(count) == count + 1

\* line 223: continue
AfterEncodeFailure == "running"

\* the consumers of /stream whose generators run at the same time, each in a
\* worker thread of the response
Loops == {1, 2}

\* what decode_predictions returns to a loop: nothing, a row of confidence 0,
\* a row of confidence 0.9
LoopOutputs == {<<>>, <<<<DetZero>>>>, <<<<DetHigh>>>>}

\* no averaging read yet in this iteration
NoWindow == [len |-> 0, foreign |-> FALSE, busy |-> FALSE]

\* the statements between which another loop can run
PopLabels == {"evict_pop", "miss_pop"}

EvictLabels == {"evict_check", "evict_pop"}

\* the window is never trimmed
NeverEvict(hist, W) == FALSE

\* line 145: if len(detection_history) > args.smooth_frames
EvictGuard(hist, W) == Len(hist) > W

\* pop(0) without a look at the length
NoMissGuard(hist) == TRUE

\* lines 190 and 193: if len(detection_history) > 0
MissGuard(hist) == Len(hist) > 0

\* list.pop(0) raises IndexError on an empty list
PopRaises(hist) == hist = <<>>

\* everything but the window size: the module globals after main() has set
\* args and cap, before the first request
InitState ==
    /\ conf_threshold \in ConfThresholds
    /\ cap_opened \in BOOLEAN
    /\ detection_history = <<>>
    /\ pc = "idle"
    /\ frame_count = 0
    /\ reads = 0
    /\ chunks = 0
    /\ source_ended = FALSE
    /\ enc_fails = 0
    /\ frame_shape = <<0, 0>>
    /\ detections = <<>>
    /\ filtered_dets = <<>>
    /\ has_fire = FALSE
    /\ overlay_dets = <<>>
    /\ drawn = <<>>
    /\ branch = "none"
    /\ evicted = FALSE
    /\ encoded = FALSE
    /\ miss_run = 0
    /\ flicker = "expect_hit"
    /\ loop_pc = [l \in Loops |-> "off"]
    /\ loop_filtered = [l \in Loops |-> <<>>]
    /\ loop_reads = [l \in Loops |-> 0]
    /\ owner = <<>>
    /\ window = [l \in Loops |-> NoWindow]
    /\ interfered = [l \in Loops |-> FALSE]
    /\ loop_fault = [l \in Loops |-> "none"]

Init ==
    /\ smooth_frames \in WindowSizes
    /\ InitState

\* the same program started with a window one larger than MaxW
InitWide ==
    /\ smooth_frames = MaxW + 1
    /\ InitState

\* GET /stream with no other stream active: a new generator, frame_count = 0
\* a new stream starts from a cleared window
ResetHistory(hist) == <<>>

\* lines 36, 112-113: the window is module state; generate_frames declares it
\* global and assigns only frame_count before the loop
HistoryAtStart(hist) == hist

video_feed ==
    /\ pc \in {"idle", "done", "error"}
    /\ pc' = "running"
    /\ frame_count' = 0
    /\ reads' = 0
    /\ chunks' = 0
    /\ source_ended' = FALSE
    /\ enc_fails' = 0
    /\ frame_shape' = <<0, 0>>
    /\ detections' = <<>>
    /\ filtered_dets' = <<>>
    /\ has_fire' = FALSE
    /\ overlay_dets' = <<>>
    /\ drawn' = <<>>
    /\ branch' = "none"
    /\ evicted' = FALSE
    /\ encoded' = FALSE
    /\ detection_history' = HistoryAtStart(detection_history)
    /\ UNCHANGED conc_vars
    /\ UNCHANGED <<smooth_frames, conf_threshold, cap_opened, miss_run, flicker>>

\* lines 116-117: cap is None or not opened
cap_closed ==
    /\ pc = "running"
    /\ ~cap_opened
    /\ pc' = AfterSourceEnd
    /\ source_ended' = TRUE
    /\ UNCHANGED conc_vars
    /\ UNCHANGED <<smooth_frames, conf_threshold, cap_opened, detection_history,
                   frame_count, reads, chunks, enc_fails, frame_shape,
                   detections, filtered_dets, has_fire, overlay_dets, drawn,
                   branch, evicted, encoded, miss_run, flicker>>

\* lines 228-229, 237-243: the consumer disconnects; the response closes the
\* generator where it is suspended, at the yield of the last chunk
consumer_gone ==
    /\ pc = "running"
    /\ encoded
    /\ pc' = "done"
    /\ UNCHANGED conc_vars
    /\ UNCHANGED <<smooth_frames, conf_threshold, cap_opened, detection_history,
                   frame_count, reads, chunks, source_ended, enc_fails,
                   frame_shape, detections, filtered_dets, has_fire,
                   overlay_dets, drawn, branch, evicted, encoded, miss_run,
                   flicker>>

\* lines 119-121: cap.read() returns ret = False
read_failed ==
    /\ pc = "running"
    /\ cap_opened
    /\ pc' = AfterSourceEnd
    /\ source_ended' = TRUE
    /\ UNCHANGED conc_vars
    /\ UNCHANGED <<smooth_frames, conf_threshold, cap_opened, detection_history,
                   frame_count, reads, chunks, enc_fails, frame_shape,
                   detections, filtered_dets, has_fire, overlay_dets, drawn,
                   branch, evicted, encoded, miss_run, flicker>>

\* lines 119-229: one iteration on a frame that was read
next_frame ==
    /\ pc = "running"
    /\ cap_opened
    /\ reads < MaxFrames
    /\ \E dets \in DetectorOutputs :
         \E r \in {SmoothingStep(detection_history, dets, smooth_frames,
                                 conf_threshold)},
            shape \in FrameShapes, ret \in BOOLEAN :
             /\ reads' = reads + 1
             /\ frame_shape' = shape
             /\ detections' = dets
             /\ detection_history' = r.history
             /\ filtered_dets' = r.filtered
             /\ has_fire' = r.has_fire
             /\ overlay_dets' = r.overlay
             /\ drawn' = draw_detections(shape, r.overlay, conf_threshold)
             /\ branch' = r.branch
             /\ evicted' = IF r.branch \in {"average", "single"}
                           THEN Len(r.history) = Len(detection_history)
                           ELSE Len(r.history) < Len(detection_history)
             /\ miss_run' = IF Len(r.filtered) > 0 THEN 0
                            ELSE Min(miss_run + 1, MaxW + 2)
             /\ flicker' = IF flicker = "expect_hit" /\ Len(r.filtered) > 0
                           THEN "expect_miss"
                           ELSE IF flicker = "expect_miss" /\ Len(r.filtered) = 0
                           THEN "expect_hit"
                           ELSE "broken"
             /\ IF r.raised
                THEN /\ pc' = "error"
                     /\ encoded' = FALSE
                     /\ UNCHANGED <<frame_count, chunks, enc_fails>>
                ELSE /\ frame_count' = NextCount(frame_count)
                     /\ encoded' = ret
                     /\ IF ret
                        THEN /\ chunks' = chunks + 1
                             /\ pc' = "running"
                             /\ enc_fails' = enc_fails
                        ELSE /\ chunks' = chunks
                             /\ pc' = AfterEncodeFailure
                             /\ enc_fails' = enc_fails + 1
    /\ UNCHANGED conc_vars
    /\ UNCHANGED <<smooth_frames, conf_threshold, cap_opened, source_ended>>

\* lines 237-243 and 112-113: a consumer requests /stream; its generator starts
loop_video_feed(l) ==
    /\ loop_pc[l] \in {"off", "done", "error"}
    /\ loop_pc' = [loop_pc EXCEPT ![l] = "read"]
    /\ loop_filtered' = [loop_filtered EXCEPT ![l] = <<>>]
    /\ loop_reads' = [loop_reads EXCEPT ![l] = 0]
    /\ window' = [window EXCEPT ![l] = NoWindow]
    /\ interfered' = [interfered EXCEPT ![l] = FALSE]
    /\ loop_fault' = [loop_fault EXCEPT ![l] = "none"]
    /\ UNCHANGED <<smooth_frames, conf_threshold, cap_opened, detection_history,
                   owner>>
    /\ UNCHANGED single_vars

\* lines 115-141 and 182-188: the source check, the read, the inference and the
\* filter, all on locals; with smoothing off a hit is drawn and emitted at once
loop_read(l) ==
    /\ loop_pc[l] = "read"
    /\ window' = [window EXCEPT ![l] = NoWindow]
    /\ \/ /\ ~cap_opened
          /\ loop_pc' = [loop_pc EXCEPT ![l] = AfterSourceEnd]
          /\ UNCHANGED <<loop_filtered, loop_reads>>
       \/ /\ cap_opened
          /\ loop_pc' = [loop_pc EXCEPT ![l] = AfterSourceEnd]
          /\ UNCHANGED <<loop_filtered, loop_reads>>
       \/ /\ cap_opened
          /\ loop_reads[l] < MaxFrames
          /\ \E dets \in LoopOutputs :
                LET filtered == IF Len(dets) > 0 /\ Len(dets[1]) > 0
                                THEN Filter(dets[1], conf_threshold)
                                ELSE <<>>
                IN  /\ loop_filtered' = [loop_filtered EXCEPT ![l] = filtered]
                    /\ loop_reads' = [loop_reads EXCEPT ![l] = @ + 1]
                    /\ loop_pc' = [loop_pc EXCEPT ![l] =
                                     IF Len(filtered) > 0
                                     THEN IF SmoothingEnabled(smooth_frames)
                                          THEN "append"
                                          ELSE "read"
                                     ELSE "miss_check"]
    /\ UNCHANGED <<smooth_frames, conf_threshold, cap_opened, detection_history,
                   owner, interfered, loop_fault>>
    /\ UNCHANGED single_vars

\* line 143: detection_history.append(filtered_dets)
loop_append(l) ==
    /\ loop_pc[l] = "append"
    /\ detection_history' = Append(detection_history, loop_filtered[l])
    /\ owner' = Append(owner, l)
    /\ loop_pc' = [loop_pc EXCEPT ![l] = "evict_check"]
    /\ UNCHANGED <<smooth_frames, conf_threshold, cap_opened, loop_filtered,
                   loop_reads, window, interfered, loop_fault>>
    /\ UNCHANGED single_vars

\* line 145: the length test before the eviction
loop_evict_check(l) ==
    /\ loop_pc[l] = "evict_check"
    /\ loop_pc' = [loop_pc EXCEPT ![l] =
                     IF EvictGuard(detection_history, smooth_frames)
                     THEN "evict_pop"
                     ELSE "window_check"]
    /\ interfered' = [interfered EXCEPT ![l] = FALSE]
    /\ UNCHANGED <<smooth_frames, conf_threshold, cap_opened, detection_history,
                   loop_filtered, loop_reads, owner, window, loop_fault>>
    /\ UNCHANGED single_vars

\* detection_history.pop(0) by loop l, which goes on at statement after
Pop(l, after) ==
    IF PopRaises(detection_history)
    THEN /\ loop_pc' = [loop_pc EXCEPT ![l] = "error"]
         /\ loop_fault' = [loop_fault EXCEPT ![l] = "IndexError"]
         /\ UNCHANGED <<detection_history, owner, interfered>>
    ELSE /\ detection_history' = Tail(detection_history)
         /\ owner' = Tail(owner)
         /\ loop_pc' = [loop_pc EXCEPT ![l] = after]
         /\ interfered' = [m \in Loops |->
                              IF m = l THEN FALSE
                              ELSE interfered[m] \/ loop_pc[m] \in PopLabels]
         /\ UNCHANGED loop_fault

\* line 146: detection_history.pop(0) after the append
loop_evict_pop(l) ==
    /\ loop_pc[l] = "evict_pop"
    /\ Pop(l, "window_check")
    /\ UNCHANGED <<smooth_frames, conf_threshold, cap_opened, loop_filtered,
                   loop_reads, window>>
    /\ UNCHANGED single_vars

\* lines 148 and 175-181: with fewer than two entries the frame's own
\* detections are drawn and the frame is emitted
loop_window_check(l) ==
    /\ loop_pc[l] = "window_check"
    /\ loop_pc' = [loop_pc EXCEPT ![l] =
                     IF HasWindow(detection_history) THEN "average" ELSE "read"]
    /\ UNCHANGED <<smooth_frames, conf_threshold, cap_opened, detection_history,
                   loop_filtered, loop_reads, owner, window, interfered,
                   loop_fault>>
    /\ UNCHANGED single_vars

\* lines 149-174: the representatives of the entries the list holds now, their
\* weighted average, and the frame emitted
loop_average(l) ==
    /\ loop_pc[l] = "average"
    /\ window' = [window EXCEPT ![l] =
                    [len |-> Len(detection_history),
                     foreign |-> \E i \in 1..Len(owner) : owner[i] # l,
                     busy |-> \E m \in Loops \ {l} : loop_pc[m] \in EvictLabels]]
    /\ LET reps == Representatives(detection_history)
       IN  IF reps # <<>> /\ AverageRaises(Weights(reps))
           THEN /\ loop_pc' = [loop_pc EXCEPT ![l] = "error"]
                /\ loop_fault' = [loop_fault EXCEPT ![l] = "ZeroDivisionError"]
           ELSE /\ loop_pc' = [loop_pc EXCEPT ![l] = "read"]
                /\ UNCHANGED loop_fault
    /\ UNCHANGED <<smooth_frames, conf_threshold, cap_opened, detection_history,
                   loop_filtered, loop_reads, owner, interfered>>
    /\ UNCHANGED single_vars

\* lines 190 and 193: the length test of a miss frame
loop_miss_check(l) ==
    /\ loop_pc[l] = "miss_check"
    /\ loop_pc' = [loop_pc EXCEPT ![l] =
                     IF MissGuard(detection_history) THEN "miss_pop" ELSE "read"]
    /\ interfered' = [interfered EXCEPT ![l] = FALSE]
    /\ UNCHANGED <<smooth_frames, conf_threshold, cap_opened, detection_history,
                   loop_filtered, loop_reads, owner, window, loop_fault>>
    /\ UNCHANGED single_vars

\* lines 191 and 194: detection_history.pop(0) of a miss frame
loop_miss_pop(l) ==
    /\ loop_pc[l] = "miss_pop"
    /\ Pop(l, "read")
    /\ UNCHANGED <<smooth_frames, conf_threshold, cap_opened, loop_filtered,
                   loop_reads, window>>
    /\ UNCHANGED single_vars

NextConc ==
    \E l \in Loops :
        \/ loop_video_feed(l)
        \/ loop_read(l)
        \/ loop_append(l)
        \/ loop_evict_check(l)
        \/ loop_evict_pop(l)
        \/ loop_window_check(l)
        \/ loop_average(l)
        \/ loop_miss_check(l)
        \/ loop_miss_pop(l)

\* two consumers of /stream, interleaved between statements
SpecConc == Init /\ [][NextConc]_vars

Next == video_feed \/ cap_closed \/ read_failed \/ consumer_gone \/ next_frame

Spec == Init /\ [][Next]_vars

SpecWide == InitWide /\ [][Next]_vars

----------------------------------------------------------------------------
\* Properties

\* a step that processed a frame (next_frame)
FrameStep == reads' = reads + 1

\* the last frame had a non-empty filtered set
Hit == filtered_dets # <<>>

\* C1: at the end of every frame iteration (and in every other state) the
\* history holds at most W = smooth_frames entries, for every W >= 0 and every
\* sequence of hit and miss frames.
C1_HistoryBounded == Len(detection_history) <= smooth_frames

\* a hit frame pushed onto a full window and the oldest entry was evicted
C1_Witness ==
    /\ smooth_frames >= 2
    /\ Hit
    /\ evicted
    /\ Len(detection_history) = smooth_frames

\* C2: a miss frame removes exactly the oldest entry of a non-empty history and
\* appends nothing (an empty history stays empty); after W+1 consecutive miss
\* frames the history is empty.
C2_MissEvictsOldest ==
    /\ [][(FrameStep /\ filtered_dets' = <<>>) =>
            detection_history' = IF detection_history # <<>>
                                 THEN Tail(detection_history)
                                 ELSE <<>>]_vars
    /\ [](miss_run >= smooth_frames + 1 => detection_history = <<>>)

\* a miss frame removed the oldest of two entries and left the newer one
C2_Witness ==
    /\ ~Hit
    /\ evicted
    /\ miss_run = 1
    /\ Len(detection_history) = 1
    /\ smooth_frames = 2

\* C3: with W <= 1 the history stays empty, the averaging branch (and the
\* history-backed single-entry branch) is never taken, and each frame shows
\* either its raw filtered set, every row of it, or nothing.
C3_SmoothingDisabled ==
    smooth_frames <= 1 =>
        /\ detection_history = <<>>
        /\ branch \notin {"average", "single"}
        /\ \/ /\ has_fire
              /\ Hit
              /\ overlay_dets = filtered_dets
              /\ Len(drawn) = Len(filtered_dets)
           \/ /\ ~has_fire
              /\ ~Hit
              /\ overlay_dets = <<>>
              /\ drawn = <<>>

\* W = 1 and a frame with two qualifying detections, both drawn
C3_Witness ==
    /\ smooth_frames = 1
    /\ branch = "unsmoothed"
    /\ Len(filtered_dets) = 2
    /\ Len(drawn) = 2

\* a float that is a whole number of tenths, as that number
Tenths(a) == (a.n * Scale) \div a.d

RECURSIVE ISum(_)
ISum(s) == IF s = <<>> THEN 0 ELSE s[1] + ISum(Tail(s))

\* the highest-confidence detection of a history entry
Best(entry) ==
    CHOOSE d \in {entry[i] : i \in 1..Len(entry)} :
        \A i \in 1..Len(entry) : Tenths(entry[i].conf) <= Tenths(d.conf)

\* the representatives of the current history, one per entry
Reps == [i \in 1..Len(detection_history) |-> Best(detection_history[i])]

\* c_1..c_n in tenths, their sum and the sum of their squares
RepConf == [i \in 1..Len(Reps) |-> Tenths(Reps[i].conf)]

SumConf == ISum(RepConf)

SumConfSq == ISum([i \in 1..Len(RepConf) |-> RepConf[i] * RepConf[i]])

\* sum_i (c_i / sum_j c_j) * b_i for the coordinate f
ClaimedAverage(f) ==
    FSum([i \in 1..Len(Reps) |->
            FMul(FDiv(Reps[i].conf, Norm(SumConf, Scale)), Reps[i][f])])

\* C4: when the averaging branch emits a detection (n >= 2 entries), its box is
\* sum_i (c_i / sum_j c_j) * b_i in every coordinate and its confidence is
\* (sum c_i^2) / (sum c_i), over the highest-confidence detection of each entry.
C4_WeightedAverage ==
    (branch = "average" /\ has_fire) =>
        /\ Len(detection_history) >= 2
        /\ Len(overlay_dets) = 1
        /\ \A f \in {"x_min", "y_min", "x_max", "y_max"} :
               overlay_dets[1][f] = ClaimedAverage(f)
        /\ ~IsNaN(overlay_dets[1].conf)
        /\ overlay_dets[1].conf.n * SumConf * Scale
               = overlay_dets[1].conf.d * SumConfSq

\* representatives 0.9 and 0.5 give (0.81 + 0.25) / 1.4 = 53/70
C4_Witness ==
    /\ branch = "average"
    /\ has_fire
    /\ Len(detection_history) = 2
    /\ RepConf = <<9, 5>>
    /\ overlay_dets[1].conf = [n |-> 53, d |-> 70]

\* C5: with W > 1, a hit frame that leaves fewer than 2 entries in the history
\* found the history empty, does no averaging and shows its whole filtered
\* set, one rectangle per row.
C5_SingleEntryRaw ==
    /\ []((smooth_frames > 1 /\ Hit /\ Len(detection_history) < 2) =>
            /\ branch = "single"
            /\ has_fire
            /\ overlay_dets = filtered_dets
            /\ Len(drawn) = Len(filtered_dets)
            /\ \A i \in 1..Len(drawn) : drawn[i].label = filtered_dets[i].conf)
    /\ [][(FrameStep /\ smooth_frames > 1 /\ filtered_dets' # <<>>
              /\ Len(detection_history') < 2) =>
            detection_history = <<>>]_vars

\* a first hit with two qualifying detections: history length 1, both drawn
C5_Witness ==
    /\ smooth_frames > 1
    /\ Len(detection_history) = 1
    /\ Len(filtered_dets) = 2
    /\ has_fire
    /\ Len(drawn) = 2

\* C6: the threshold is inclusive: a raw detection passes the filter exactly
\* when its confidence is >= conf_threshold, the weighted average is emitted
\* whenever it is >= conf_threshold, and every row handed to draw_detections
\* with confidence >= conf_threshold is drawn.
C6_InclusiveThreshold ==
    /\ detections # <<>> =>
           filtered_dets = SelectSeq(detections[1],
               LAMBDA d : Tenths(d.conf) >= Tenths(conf_threshold))
    /\ (branch = "average" /\ SumConf > 0
           /\ SumConfSq >= Tenths(conf_threshold) * SumConf) =>
           (has_fire /\ Len(overlay_dets) = 1)
    /\ Len(drawn) =
           Len(SelectSeq(overlay_dets,
               LAMBDA d : d.conf.n * Scale >= Tenths(conf_threshold) * d.conf.d))

\* threshold 0.5, a raw detection of confidence exactly 0.5 passed the filter
\* and the weighted average, exactly 0.5, was emitted and drawn
C6_Witness ==
    /\ Tenths(conf_threshold) = 5
    /\ branch = "average"
    /\ filtered_dets = <<DetHalf>>
    /\ has_fire
    /\ overlay_dets[1].conf = conf_threshold
    /\ Len(drawn) = 1

\* C7: once the source has failed (a read failed, or cap is not open) the
\* generator is finished, it has emitted at most as many chunks as frames were
\* read, exactly as many when no encode failed, and it neither reads nor emits
\* again.
C7_SourceEndTerminates ==
    /\ [](source_ended =>
            /\ pc = "done"
            /\ chunks <= reads
            /\ (enc_fails = 0 => chunks = reads))
    /\ [][source_ended => (reads' # reads + 1 /\ chunks' # chunks + 1)]_vars

\* three frames read, three chunks emitted, then the source failed
C7_Witness ==
    /\ source_ended
    /\ pc = "done"
    /\ reads = 3
    /\ chunks = 3

\* C8: a frame whose imencode fails emits no chunk and leaves the loop running;
\* a frame whose imencode succeeds emits exactly one chunk, also after earlier
\* failures.
C8_EncodeFailureSkips ==
    /\ [][(frame_count' = frame_count + 1 /\ ~encoded') =>
            (chunks' = chunks /\ pc' = "running")]_vars
    /\ [][(frame_count' = frame_count + 1 /\ encoded') =>
            (chunks' = chunks + 1 /\ pc' = "running")]_vars

\* an encode failed earlier in this stream and the last frame was still emitted
C8_Witness ==
    /\ enc_fails >= 1
    /\ encoded
    /\ chunks >= 1
    /\ pc = "running"

\* C9: every rectangle drawn lies inside the frame: 0 <= x1, x2 <= w-1 and
\* 0 <= y1, y2 <= h-1.
C9_BoxClamped ==
    \A i \in 1..Len(drawn) :
        /\ frame_shape[1] >= 1
        /\ frame_shape[2] >= 1
        /\ 0 <= drawn[i].x1 /\ drawn[i].x1 <= frame_shape[1] - 1
        /\ 0 <= drawn[i].x2 /\ drawn[i].x2 <= frame_shape[1] - 1
        /\ 0 <= drawn[i].y1 /\ drawn[i].y1 <= frame_shape[2] - 1
        /\ 0 <= drawn[i].y2 /\ drawn[i].y2 <= frame_shape[2] - 1

\* a box with x_min = -0.5, x_max = 1.2, y_max = 1.0 drawn on a 4x3 frame:
\* int() gives -2, 4 and 3, the rectangle has x1 = 0, x2 = 3, y2 = 2
C9_Witness ==
    \E i \in 1..Len(drawn) :
        /\ frame_shape = <<4, 3>>
        /\ overlay_dets[i] = DetHalf
        /\ drawn[i].x1 = 0
        /\ drawn[i].x2 = 3
        /\ drawn[i].y2 = 2

\* every representative of the current history has confidence 0
AllZero == \A i \in 1..Len(RepConf) : RepConf[i] = 0

\* C10: the generator never ends in an exception of the weighting step; when
\* all representatives have confidence 0 (possible only with conf_threshold
\* <= 0) the frame shows no detection and the iteration runs to its end.
C10_ZeroWeightsNoError ==
    /\ pc # "error"
    /\ (branch = "average" /\ Len(detection_history) >= 2 /\ AllZero) =>
           /\ Tenths(conf_threshold) <= 0
           /\ ~has_fire
           /\ drawn = <<>>
           /\ frame_count = reads

\* two entries of confidence 0 were averaged, nothing was drawn, the frame was
\* encoded and emitted and the loop runs on
C10_Witness ==
    /\ branch = "average"
    /\ Len(detection_history) >= 2
    /\ AllZero
    /\ ~has_fire
    /\ encoded
    /\ chunks = reads
    /\ pc = "running"

\* C11 as stated: with W > 1 a frame shows fire only once the window has
\* filled and the weighted average has cleared the threshold.
C11_Original ==
    (smooth_frames > 1 /\ has_fire) =>
        (branch = "average" /\ Len(detection_history) = smooth_frames)

\* C11, amended: with W > 1 a hit frame on an empty history registers as fire
\* at once (has_fire, the raw filtered set handed to draw_detections, history
\* length 1), without waiting for the window to fill; a miss frame directly
\* after it shows no fire and leaves the history empty.
C11_IsolatedHitShown ==
    /\ [][(FrameStep /\ smooth_frames > 1 /\ detection_history = <<>>
              /\ filtered_dets' # <<>>) =>
            /\ has_fire'
            /\ branch' = "single"
            /\ overlay_dets' = filtered_dets'
            /\ Len(drawn') = Len(filtered_dets')
            /\ Len(detection_history') = 1]_vars
    /\ [][(FrameStep /\ smooth_frames > 1 /\ Len(detection_history) = 1
              /\ filtered_dets' = <<>>) =>
            /\ ~has_fire'
            /\ drawn' = <<>>
            /\ detection_history' = <<>>]_vars

\* the miss frame after an isolated hit: second frame of the stream, the one
\* entry was evicted, nothing is shown
C11_Witness ==
    /\ smooth_frames > 1
    /\ reads = 2
    /\ miss_run = 1
    /\ evicted
    /\ detection_history = <<>>
    /\ ~has_fire

\* a step that starts a new generator (video_feed)
StreamStart == pc # "running" /\ pc' = "running"

\* C12: within one stream frame_count grows by exactly 1 with every frame read,
\* also when the encode fails, so it equals the number of frames read and is
\* larger at every emitted chunk than at the one before; the history and
\* has_fire of a frame are a function of the history, the detections and the
\* configuration alone.
C12_FrameCounter ==
    /\ [](frame_count = reads)
    /\ [][FrameStep => frame_count' = frame_count + 1]_vars
    /\ [][~StreamStart => frame_count' >= frame_count]_vars
    /\ [][chunks' = chunks + 1 => frame_count' > frame_count]_vars
    /\ [][FrameStep =>
            \E r \in {SmoothingStep(detection_history, detections',
                                     smooth_frames, conf_threshold)} :
                detection_history' = r.history /\ has_fire' = r.has_fire]_vars

\* the first frame failed to encode, the second was emitted showing "Frame: 2"
C12_Witness ==
    /\ frame_count = 2
    /\ enc_fails = 1
    /\ chunks = 1
    /\ encoded

\* C13: with W > 1 a hit frame puts its filtered set at the back of the
\* history; below W entries nothing else changes, at W entries exactly the
\* front entry goes and the others keep content and order.
C13_AppendEvictsFront ==
    [][(FrameStep /\ smooth_frames > 1 /\ filtered_dets' # <<>>) =>
        /\ Len(detection_history) < smooth_frames =>
               detection_history' = detection_history \o <<filtered_dets'>>
        /\ Len(detection_history) = smooth_frames =>
               detection_history' = Tail(detection_history) \o <<filtered_dets'>>]_vars

\* a full window of two different entries after an eviction, the newest last
C13_Witness ==
    /\ smooth_frames = 2
    /\ Hit
    /\ evicted
    /\ Len(detection_history) = 2
    /\ detection_history[2] = filtered_dets
    /\ detection_history[1] # detection_history[2]

\* the weighted average (sum c_i^2) / (sum c_i) of the current history is
\* defined and >= conf_threshold
AverageClears == SumConf > 0 /\ SumConfSq >= Tenths(conf_threshold) * SumConf

\* C14: on every frame that leaves 2 or more entries in the history, a miss
\* frame included, exactly one stabilized detection with class id 0 and the
\* weighted-average confidence is emitted if that average is >= conf_threshold,
\* and none otherwise.
C14_AverageOnEveryFrame ==
    (branch # "none" /\ Len(detection_history) >= 2 /\ SumConf > 0) =>
        IF AverageClears
        THEN /\ has_fire
             /\ Len(overlay_dets) = 1
             /\ overlay_dets[1].class_id = 0
             /\ overlay_dets[1].conf.n * SumConf * Scale
                    = overlay_dets[1].conf.d * SumConfSq
        ELSE /\ ~has_fire
             /\ overlay_dets = <<>>

\* C15 as stated: with W <= 1 a non-empty filtered set is shown as its single
\* highest-confidence entry.
C15_Original ==
    (smooth_frames <= 1 /\ Hit) =>
        (Len(overlay_dets) = 1 /\ overlay_dets[1] = Best(filtered_dets))

\* C15, amended: with W <= 1 a non-empty filtered set is shown whole: every
\* entry of it is drawn, in the detector's order, each with its own confidence.
C15_UnsmoothedShowsAll ==
    (smooth_frames <= 1 /\ Hit) =>
        /\ has_fire
        /\ Len(drawn) = Len(filtered_dets)
        /\ \A i \in 1..Len(filtered_dets) :
               /\ overlay_dets[i] = filtered_dets[i]
               /\ drawn[i].label = filtered_dets[i].conf

\* W = 0, detections of confidence 0.5 and 0.9 in one frame: two rectangles,
\* the lower-confidence one first
C15_Witness ==
    /\ smooth_frames = 0
    /\ filtered_dets = <<DetHalf, DetHigh>>
    /\ Len(drawn) = 2
    /\ drawn[1].label = DetHalf.conf
    /\ drawn[2].label = DetHigh.conf

\* C16: with W >= 2, as long as the frames since the empty start alternate
\* hit, miss, hit, miss, the history holds 1 entry after a hit and 0 after a
\* miss, the averaging branch is not entered, and a hit frame shows its raw
\* filtered set.
C16_FlickerNeverFills ==
    (smooth_frames >= 2 /\ flicker # "broken") =>
        /\ Len(detection_history) = IF flicker = "expect_miss" THEN 1 ELSE 0
        /\ Len(detection_history) < smooth_frames
        /\ branch # "average"
        /\ Hit => (branch = "single" /\ has_fire /\ overlay_dets = filtered_dets)

\* hit, miss, hit in one stream: the third frame is again a first entry
C16_Witness ==
    /\ smooth_frames >= 2
    /\ flicker = "expect_miss"
    /\ reads = 3
    /\ Len(detection_history) = 1
    /\ branch = "single"

\* C18: with conf_threshold > 0 every detection in every history entry has
\* confidence >= conf_threshold, the averaging branch always emits (its average
\* is >= conf_threshold), and a frame shows fire exactly when its own filtered
\* set is non-empty.
C18_FireIffOwnHit ==
    Tenths(conf_threshold) > 0 =>
        /\ \A i \in 1..Len(detection_history) :
               \A j \in 1..Len(detection_history[i]) :
                   Tenths(detection_history[i][j].conf) >= Tenths(conf_threshold)
        /\ branch = "average" =>
               /\ has_fire
               /\ Len(overlay_dets) = 1
               /\ overlay_dets[1].conf.n * Scale
                      >= Tenths(conf_threshold) * overlay_dets[1].conf.d
        /\ branch # "none" => (has_fire <=> Hit)

\* threshold 0.5, entries of confidence 0.5 and 0.9 averaged to 53/70 and shown
C18_Witness ==
    /\ Tenths(conf_threshold) = 5
    /\ branch = "average"
    /\ RepConf = <<5, 9>>
    /\ has_fire
    /\ overlay_dets[1].conf = [n |-> 53, d |-> 70]

StreamEnd == pc = "running" /\ pc' \in {"done", "error"} /\ reads' = reads

\* C19: a stream that ends on a source failure or a vanished consumer leaves
\* the history as it is, and a stream that starts keeps exactly the entries
\* it finds while its frame counter restarts from 0.
C19_HistorySurvivesRestart ==
    /\ [][StreamEnd => detection_history' = detection_history]_vars
    /\ [][StreamStart =>
            (detection_history' = detection_history /\ frame_count' = 0)]_vars

\* the first frame of a stream is averaged with an entry of an earlier stream
C19_Witness ==
    /\ reads = 1
    /\ frame_count = 1
    /\ branch = "average"
    /\ Len(detection_history) = 2
    /\ has_fire

\* C17: the history holds at most W entries plus one for each loop that has
\* appended and not yet finished its eviction, so an averaging that reads more
\* than W entries runs while another loop is between its append and its pop.
C17_WindowNeedsOneLoop ==
    /\ Len(detection_history) <=
           smooth_frames + Cardinality({l \in Loops : loop_pc[l] \in EvictLabels})
    /\ \A l \in Loops : window[l].len > smooth_frames => window[l].busy

\* a loop has averaged over more than W entries, one of them appended by the
\* other loop
C17_Witness ==
    \E l \in Loops :
        /\ SmoothingEnabled(smooth_frames)
        /\ window[l].len > smooth_frames
        /\ window[l].foreign

\* C20: a pop that no other loop's pop has come in front of runs on a
\* non-empty history; a pop on an empty history ends the loop's run with an
\* error, any other pop removes the front entry.
C20_PopAfterCheckNotAtomic ==
    /\ [](\A l \in Loops :
            (loop_pc[l] \in PopLabels /\ ~interfered[l]) =>
                detection_history # <<>>)
    /\ [][\A l \in Loops :
            (loop_pc[l] \in PopLabels /\ loop_pc'[l] # loop_pc[l]) =>
                IF detection_history = <<>>
                THEN loop_pc'[l] = "error" /\ interfered[l]
                ELSE detection_history' = Tail(detection_history)
                     /\ loop_pc'[l] # "error"]_vars

\* both loops passed the length test, the other popped the last entry, and
\* this loop's pop raised
C20_Witness ==
    \E l \in Loops :
        /\ loop_pc[l] = "error"
        /\ loop_fault[l] = "IndexError"
        /\ interfered[l]
        /\ detection_history = <<>>

=============================================================================
